---- MODULE Spec2Model ----
(***************************************************************************)
(* Model of assets/code/unique-ptr-ownership.cpp: a Producer creates a     *)
(* Data into its std::unique_ptr member m_data, lends it to a Borrower by  *)
(* rvalue reference, checks whether m_data is still non-null and, if so,   *)
(* passes it by value to a Consumer.  The single thread of control is      *)
(* modelled statement by statement; the heap records, for every Data ever  *)
(* constructed, its m_datum and whether its destructor has run.            *)
(***************************************************************************)
EXTENDS Integers, Sequences, FiniteSets, TLC

\* Longest sequence of calls main makes on the borrower and the producer.
MaxOps == 4

VARIABLES
    pc,                 \* statement the thread is about to execute
    script,             \* the calls main makes, in order
    ip,                 \* index in script of main's next call
    m_moocher,          \* Borrower::m_moocher
    m_data,             \* Producer::m_data (NullPtr or a Data)
    data_is_mine_now,   \* the local of the if-block of Borrower::borrow
    consume_data,       \* the by-value parameter of Consumer::consume
    heap,               \* heap[i]: the i-th Data constructed
    log,                \* history of the observable events
    runs,               \* number of produce() calls started
    lent                \* lent[r]: m_moocher when run r called borrow()

vars == <<pc, script, ip, m_moocher, m_data, data_is_mine_now, consume_data,
          heap, log, runs, lent>>

----------------------------------------------------------------------------
\* Values

NullPtr == 0

Payload == "Hello, World!"

Ops == {"produce", "setBadWill"}

\* The calls of main(): produce(), setBadWill(), produce().
MainScript == <<"produce", "setBadWill", "produce">>

Scripts == UNION {[1..n -> Ops] : n \in 0..MaxOps}

\* What a read through an invalid pointer may yield (undefined behaviour).
Crash == "<crash>"

UBReads == {"", "<garbage>", Crash}

BoolStr(b) == IF b THEN "true" ELSE "false"

Event(e, i, v) == [ev |-> e, run |-> runs, id |-> i, val |-> v]

----------------------------------------------------------------------------
\* Data and std::unique_ptr<Data>

\* Data::Data(datum): the new object is heap[Len(heap) + 1].
make_unique(h, s) == Append(h, [datum |-> s, state |-> "alive"])

\* Data::~Data()
DataDtor(h, p) == [h EXCEPT ![p].state = "destroyed"]

Alive(h, p) == p \in DOMAIN h /\ h[p].state = "alive"

\* Data::datum() through a unique_ptr: the set of values the read can yield.
datum(h, p) == IF Alive(h, p) THEN {h[p].datum} ELSE UBReads

\* A unique_ptr whose destructor does not delete the pointee.
UniquePtrDtorLeakMut(h, p) == h

\* ~unique_ptr(): deletes the pointee, if any.
UniquePtrDtor(h, p) == IF p = NullPtr THEN h ELSE DataDtor(h, p)

\* The destruction events ~unique_ptr() emits.
DtorEvents(p) == IF p = NullPtr THEN <<>> ELSE <<Event("destroy", p, "")>>

\* A move that copies the pointer and leaves the source as it was.
MovedFromCopyMut(p) == p

\* The value a unique_ptr holds after it has been moved from.
MovedFrom(p) == NullPtr

\* produce() without the occupancy check: consume is always called.
LostItNeverMut(p) == FALSE

\* produce() that always takes the lost-it branch.
LostItAlwaysMut(p) == TRUE

\* `!m_data` at line 67.
LostIt(p) == p = NullPtr

\* A borrower that never claims, and one that always does.
StealsNeverMut(m) == FALSE

StealsAlwaysMut(m) == TRUE

\* `if (m_moocher)` at line 35.
Steals(m) == m

----------------------------------------------------------------------------
\* Initial state: main has constructed borrower, consumer and producer.

Init ==
    /\ script \in Scripts
    /\ pc = "main"
    /\ ip = 1
    /\ m_moocher = FALSE
    /\ m_data = NullPtr
    /\ data_is_mine_now = NullPtr
    /\ consume_data = NullPtr
    /\ heap = <<>>
    /\ log = <<>>
    /\ runs = 0
    /\ lent = <<>>

----------------------------------------------------------------------------
\* main

main_produce ==
    /\ pc = "main"
    /\ ip <= Len(script)
    /\ script[ip] = "produce"
    /\ pc' = "produce_make"
    /\ runs' = runs + 1
    /\ UNCHANGED <<script, ip, m_moocher, m_data, data_is_mine_now,
                   consume_data, heap, log, lent>>

\* A setBadWill() that flips m_moocher instead of setting it.
main_setBadWillToggleMut ==
    /\ pc = "main"
    /\ ip <= Len(script)
    /\ script[ip] = "setBadWill"
    /\ m_moocher' = ~m_moocher
    /\ ip' = ip + 1
    /\ UNCHANGED <<pc, script, m_data, data_is_mine_now, consume_data,
                   heap, log, runs, lent>>

main_setBadWill ==
    /\ pc = "main"
    /\ ip <= Len(script)
    /\ script[ip] = "setBadWill"
    /\ m_moocher' = TRUE
    /\ ip' = ip + 1
    /\ UNCHANGED <<pc, script, m_data, data_is_mine_now, consume_data,
                   heap, log, runs, lent>>

\* return 0: producer, consumer and borrower go out of scope.
main_return ==
    /\ pc = "main"
    /\ ip > Len(script)
    /\ heap' = UniquePtrDtor(heap, m_data)
    /\ log' = log \o DtorEvents(m_data)
    /\ m_data' = NullPtr
    /\ pc' = "exited"
    /\ UNCHANGED <<script, ip, m_moocher, data_is_mine_now, consume_data,
                   runs, lent>>

----------------------------------------------------------------------------
\* Producer::produce

\* m_data = std::make_unique<Data>("Hello, World!"): the Data is constructed,
\* then move-assigned, which deletes what m_data held before.
produce_make ==
    /\ pc = "produce_make"
    /\ LET h1 == make_unique(heap, Payload)
           new == Len(h1)
       IN /\ heap' = UniquePtrDtor(h1, m_data)
          /\ log' = (log \o <<Event("create", new, Payload)>>)
                        \o DtorEvents(m_data)
          /\ m_data' = new
    /\ pc' = "produce_lend"
    /\ UNCHANGED <<script, ip, m_moocher, data_is_mine_now, consume_data,
                   runs, lent>>

\* m_borrower.borrow(std::move(m_data)): std::move is a cast, borrow's
\* parameter `data` is a reference to m_data.
produce_lend ==
    /\ pc = "produce_lend"
    /\ lent' = Append(lent, m_moocher)
    /\ pc' = "borrow_read"
    /\ UNCHANGED <<script, ip, m_moocher, m_data, data_is_mine_now,
                   consume_data, heap, log, runs>>

\* The report of (m_data != nullptr).
produce_check ==
    /\ pc = "produce_check"
    /\ log' = Append(log, Event("check", m_data, BoolStr(m_data # NullPtr)))
    /\ pc' = "produce_if"
    /\ UNCHANGED <<script, ip, m_moocher, m_data, data_is_mine_now,
                   consume_data, heap, runs, lent>>

\* if (!m_data) ... else m_consumer.consume(std::move(m_data)): the
\* parameter of consume is move-constructed from m_data.
produce_if ==
    /\ pc = "produce_if"
    /\ IF LostIt(m_data)
       THEN /\ log' = Append(log, Event("lost", m_data, ""))
            /\ pc' = "produce_final"
            /\ UNCHANGED <<m_data, consume_data>>
       ELSE /\ log' = Append(log, Event("consume", m_data, ""))
            /\ consume_data' = m_data
            /\ m_data' = MovedFrom(m_data)
            /\ pc' = "consume_read"
    /\ UNCHANGED <<script, ip, m_moocher, data_is_mine_now, heap, runs, lent>>

\* The report of (m_data == nullptr), then return to main.
produce_final ==
    /\ pc = "produce_final"
    /\ log' = Append(log, Event("final", m_data, BoolStr(m_data = NullPtr)))
    /\ pc' = "main"
    /\ ip' = ip + 1
    /\ UNCHANGED <<script, m_moocher, m_data, data_is_mine_now, consume_data,
                   heap, runs, lent>>

----------------------------------------------------------------------------
\* Borrower::borrow

\* data->datum() through the reference to m_data.
borrow_read ==
    /\ pc = "borrow_read"
    /\ \E v \in datum(heap, m_data) :
          /\ log' = Append(log, Event("borrower", m_data, v))
          /\ pc' = IF v = Crash THEN "crashed" ELSE "borrow_if"
    /\ UNCHANGED <<script, ip, m_moocher, m_data, data_is_mine_now,
                   consume_data, heap, runs, lent>>

\* if (m_moocher) { auto data_is_mine_now = std::move(data);
borrow_if ==
    /\ pc = "borrow_if"
    /\ IF Steals(m_moocher)
       THEN /\ data_is_mine_now' = m_data
            /\ m_data' = MovedFrom(m_data)
            /\ log' = Append(log, Event("claim", m_data, ""))
            /\ pc' = "borrow_block_end"
       ELSE /\ pc' = "borrow_return"
            /\ UNCHANGED <<data_is_mine_now, m_data, log>>
    /\ UNCHANGED <<script, ip, m_moocher, consume_data, heap, runs, lent>>

\* } closing the if-block: data_is_mine_now goes out of scope.
borrow_block_end ==
    /\ pc = "borrow_block_end"
    /\ heap' = UniquePtrDtor(heap, data_is_mine_now)
    /\ log' = log \o DtorEvents(data_is_mine_now)
    /\ data_is_mine_now' = NullPtr
    /\ pc' = "borrow_return"
    /\ UNCHANGED <<script, ip, m_moocher, m_data, consume_data, runs, lent>>

borrow_return ==
    /\ pc = "borrow_return"
    /\ pc' = "produce_check"
    /\ UNCHANGED <<script, ip, m_moocher, m_data, data_is_mine_now,
                   consume_data, heap, log, runs, lent>>

----------------------------------------------------------------------------
\* Consumer::consume

\* data->datum() through the parameter.
consume_read ==
    /\ pc = "consume_read"
    /\ \E v \in datum(heap, consume_data) :
          /\ log' = Append(log, Event("consumer", consume_data, v))
          /\ pc' = IF v = Crash THEN "crashed" ELSE "consume_return"
    /\ UNCHANGED <<script, ip, m_moocher, m_data, data_is_mine_now,
                   consume_data, heap, runs, lent>>

\* consume returns: its parameter is destroyed.
consume_return ==
    /\ pc = "consume_return"
    /\ heap' = UniquePtrDtor(heap, consume_data)
    /\ log' = log \o DtorEvents(consume_data)
    /\ consume_data' = NullPtr
    /\ pc' = "produce_final"
    /\ UNCHANGED <<script, ip, m_moocher, m_data, data_is_mine_now,
                   runs, lent>>

----------------------------------------------------------------------------

Next ==
    \/ main_produce
    \/ main_setBadWill
    \/ main_return
    \/ produce_make
    \/ produce_lend
    \/ produce_check
    \/ produce_if
    \/ produce_final
    \/ borrow_read
    \/ borrow_if
    \/ borrow_block_end
    \/ borrow_return
    \/ consume_read
    \/ consume_return

Spec == Init /\ [][Next]_vars

\* The single thread always takes its next step.
LiveSpec == Spec /\ WF_vars(Next)

----------------------------------------------------------------------------
\* Vocabulary of the properties

Resources == 1..Len(heap)

\* Positions in the log of the events of kind k about Data d.
At(k, d) == {i \in 1..Len(log) : log[i].ev = k /\ log[i].id = d}

Reads(d) == At("borrower", d) \cup At("consumer", d)

\* The events of run r, in order.
EventsOf(r) == SelectSeq(log, LAMBDA e : e.run = r)

\* The events of run r the program's output shows.
Shown(r) ==
    SelectSeq(EventsOf(r), LAMBDA e :
        e.ev \in {"create", "borrower", "check", "consumer", "destroy"})

Count(r, k) == Len(SelectSeq(EventsOf(r), LAMBDA e : e.ev = k))

\* Run r has reached the final statement of produce() or has returned.
Ended(r) ==
    /\ r \in 1..runs
    /\ r < runs \/ pc \in {"produce_final", "main", "exited"}

\* Run r has called borrow(), with the disposition b.
Lent(r, b) == r \in 1..Len(lent) /\ lent[r] = b

Slots == <<m_data, data_is_mine_now, consume_data>>

Owners(d) == {s \in 1..3 : Slots[s] = d}

----------------------------------------------------------------------------
\* C1: consume is only ever called with an occupied slot: every call of
\* Consumer::consume passes a non-null m_data, and while consume runs its
\* parameter holds a live Data.
C1_ConsumeOnlyWhenOccupied ==
    /\ \A i \in 1..Len(log) : log[i].ev = "consume" => log[i].id # NullPtr
    /\ pc \in {"consume_read", "consume_return"} => Alive(heap, consume_data)

\* A claiming run took the lost-it branch after an earlier run called consume.
C1_Witness ==
    /\ \E i \in 1..Len(log) : log[i].ev = "consume"
    /\ \E i \in 1..Len(log) : log[i].ev = "lost"
    /\ pc = "exited"

\* C2: whenever a call of produce() has returned to main, m_data is null.
C2_SlotEmptyAfterProduce ==
    (pc = "main" /\ ip > 1 /\ script[ip - 1] = "produce") => m_data = NullPtr

\* produce() has returned twice, once per branch.
C2_Witness ==
    /\ pc = "main"
    /\ lent = <<FALSE, TRUE>>
    /\ script[ip - 1] = "produce"

\* C3: no Data is held by two of the slots m_data, data_is_mine_now and
\* consume's parameter at once, and a step that puts a Data into
\* data_is_mine_now or into consume's parameter takes it out of m_data.
C3_OneOwner == \A d \in Resources : Cardinality(Owners(d)) <= 1

C3_TransferEmptiesSource ==
    /\ (data_is_mine_now' # NullPtr /\ data_is_mine_now' # data_is_mine_now)
          => (m_data = data_is_mine_now' /\ m_data' = NullPtr)
    /\ (consume_data' # NullPtr /\ consume_data' # consume_data)
          => (m_data = consume_data' /\ m_data' = NullPtr)

C3_ExclusiveOwnership == []C3_OneOwner /\ [][C3_TransferEmptiesSource]_vars

\* The borrower holds a claimed Data after an earlier one went to consume.
C3_Witness ==
    /\ data_is_mine_now # NullPtr
    /\ m_data = NullPtr
    /\ \E i \in 1..Len(log) : log[i].ev = "consume"

\* C4 as stated: a Data the borrower claimed stays alive until main returns.
C4_ClaimedAliveUntilTeardown ==
    \A i \in 1..Len(log) :
        (log[i].ev = "claim" /\ pc # "exited") => Alive(heap, log[i].id)

\* C4 amended: a Data the borrower claimed is alive only inside the if-block
\* of borrow(), held by data_is_mine_now; its destruction is the next event
\* after the claim, so once borrow() has returned it is destroyed.
C4_ClaimedDestroyedInBorrow ==
    \A i \in 1..Len(log) :
        log[i].ev = "claim" =>
            IF pc = "borrow_block_end" /\ i = Len(log)
            THEN data_is_mine_now = log[i].id /\ Alive(heap, log[i].id)
            ELSE /\ ~Alive(heap, log[i].id)
                 /\ i < Len(log)
                 /\ log[i + 1].ev = "destroy"
                 /\ log[i + 1].id = log[i].id
                 /\ log[i].id \notin {m_data, data_is_mine_now, consume_data}

\* produce() has returned from a run in which the borrower claimed.
C4_Witness ==
    /\ pc = "main"
    /\ runs > 0
    /\ lent[runs] = TRUE
    /\ \E i \in 1..Len(log) : log[i].ev = "claim" /\ log[i].run = runs

\* C5: every Data has exactly one creation event; it has at most one
\* destruction event, which comes after its creation and after every read
\* of its payload, and exactly one once main has returned.
C5_OneCreateOneDestroy ==
    \A d \in Resources :
        /\ Cardinality(At("create", d)) = 1
        /\ Cardinality(At("destroy", d)) <= 1
        /\ Alive(heap, d) <=> At("destroy", d) = {}
        /\ pc = "exited" => Cardinality(At("destroy", d)) = 1
        /\ \A j \in At("destroy", d) :
              \A i \in At("create", d) \cup Reads(d) : i < j

\* main has returned after a consumed Data and a claimed Data.
C5_Witness ==
    /\ pc = "exited"
    /\ Len(heap) >= 2
    /\ \E d \in Resources : At("consumer", d) # {}
    /\ \E d \in Resources : At("claim", d) # {}

\* C6: a run lent with m_moocher false ends with exactly one consume call
\* and one consumer report, of the payload the Data was constructed with,
\* which is also what the borrower reported; m_data is null from the call
\* of consume on.
C6_UntouchedRunConsumed ==
    /\ \A r \in 1..runs :
          (Ended(r) /\ Lent(r, FALSE)) =>
              /\ Count(r, "consume") = 1
              /\ Count(r, "consumer") = 1
              /\ \A i \in 1..Len(log) :
                    (log[i].run = r /\ log[i].ev \in {"borrower", "consumer"})
                        => /\ log[i].val = Payload
                           /\ log[i].val = heap[log[i].id].datum
    /\ (Lent(runs, FALSE)
          /\ pc \in {"consume_read", "consume_return", "produce_final"})
          => m_data = NullPtr

\* A second untouched run has reached the end of produce().
C6_Witness ==
    /\ pc = "produce_final"
    /\ runs = 2
    /\ lent = <<FALSE, FALSE>>
    /\ Count(2, "consumer") = 1

\* C7: in a run lent with m_moocher true, m_data is null when borrow()
\* returns, the occupancy check reports false, and consume is not called.
C7_ClaimedRunSkipsConsumer ==
    /\ \A r \in 1..runs :
          Lent(r, TRUE) =>
              /\ Count(r, "consume") = 0
              /\ Count(r, "consumer") = 0
              /\ \A i \in 1..Len(log) :
                    (log[i].run = r /\ log[i].ev = "check")
                        => log[i].val = "false"
              /\ Ended(r) => (Count(r, "check") = 1 /\ Count(r, "lost") = 1)
    /\ (Lent(runs, TRUE) /\ pc \in {"borrow_return", "produce_check"})
          => m_data = NullPtr

\* A claiming run has reached the end of produce().
C7_Witness ==
    /\ pc = "produce_final"
    /\ Lent(runs, TRUE)
    /\ Count(runs, "claim") = 1

\* C8: with m_moocher false, no step of borrow() changes m_data, the heap,
\* m_moocher or data_is_mine_now, and at its return m_data still holds the
\* live Data this run constructed, with its payload.
C8_BorrowSteps ==
    (pc \in {"borrow_read", "borrow_if", "borrow_return"} /\ ~m_moocher)
        => /\ m_data' = m_data
           /\ heap' = heap
           /\ m_moocher' = m_moocher
           /\ data_is_mine_now' = data_is_mine_now
           /\ consume_data' = consume_data

C8_AtReturn ==
    (pc = "borrow_return" /\ ~m_moocher)
        => /\ m_data = Len(heap)
           /\ Alive(heap, m_data)
           /\ heap[m_data].datum = Payload
           /\ At("create", m_data) # {}
           /\ log[Len(log)] = Event("borrower", m_data, Payload)

C8_UntouchedBorrowFrame == []C8_AtReturn /\ [][C8_BorrowSteps]_vars

\* borrow() is about to return without having claimed.
C8_Witness ==
    /\ pc = "borrow_return"
    /\ ~m_moocher
    /\ m_data # NullPtr

\* C9: the output of a run lent with m_moocher false is, in this order:
\* creation, borrower report, check yielding true, consumer report,
\* destruction, all about the same Data and payload; the Data is already
\* destroyed when produce() reaches its final check.
C9_UntouchedRunOrder ==
    \A r \in 1..runs :
        (Ended(r) /\ Lent(r, FALSE)) =>
            LET s == Shown(r) IN
            /\ Len(s) = 5
            /\ [i \in 1..5 |-> s[i].ev]
                  = <<"create", "borrower", "check", "consumer", "destroy">>
            /\ [i \in 1..5 |-> s[i].val]
                  = <<Payload, Payload, "true", Payload, "">>
            /\ \A i \in 1..5 : s[i].id = s[1].id
            /\ ~Alive(heap, s[1].id)
            /\ Count(r, "final") <= 1
            /\ EventsOf(r)[Len(EventsOf(r)) - Count(r, "final")].ev = "destroy"

\* The first run, untouched, has returned to main.
C9_Witness ==
    /\ pc = "main"
    /\ runs = 1
    /\ lent = <<FALSE>>
    /\ Count(1, "final") = 1

\* C10: m_data is null whenever produce() is about to construct a Data, and
\* the construction step destroys no Data and emits no destruction event.
C10_EmptyAtStart == pc = "produce_make" => m_data = NullPtr

C10_MakeDestroysNothing ==
    pc = "produce_make" =>
        /\ \A d \in Resources : heap'[d] = heap[d]
        /\ Len(log') = Len(log) + 1
        /\ log'[Len(log')].ev = "create"
        /\ m_data' = Len(heap') /\ Alive(heap', m_data')

C10_FreshSlotPerRun == []C10_EmptyAtStart /\ [][C10_MakeDestroysNothing]_vars

\* A third production is starting after an untouched and a claiming run.
C10_Witness ==
    /\ pc = "produce_make"
    /\ lent = <<FALSE, TRUE>>
    /\ runs = 3

\* C11: m_moocher is false at the start and, once true, stays true; no
\* statement of produce(), borrow() or consume() changes it, so a run lends
\* with claim exactly when setBadWill() was called before it: main lends
\* its first run untouched and its second run with claim.
C11_SetBefore(r) ==
    \E k \in 1..Len(script) :
        /\ script[k] = "setBadWill"
        /\ Cardinality({j \in 1..k : script[j] = "produce"}) < r

C11_Lends ==
    /\ \A r \in 1..Len(lent) : lent[r] <=> C11_SetBefore(r)
    /\ \A r \in 1..(Len(lent) - 1) : lent[r] => lent[r + 1]
    /\ script = MainScript =>
          \A r \in 1..Len(lent) : lent[r] = <<FALSE, TRUE>>[r]

C11_Steps ==
    /\ m_moocher => m_moocher'
    /\ pc # "main" => m_moocher' = m_moocher

C11_DispositionSticks ==
    /\ ~m_moocher
    /\ []C11_Lends
    /\ [][C11_Steps]_vars

\* setBadWill() has been called twice and a run has lent after it.
C11_Witness ==
    /\ m_moocher
    /\ Cardinality({k \in 1..(ip - 1) : script[k] = "setBadWill"}) >= 2
    /\ Len(lent) >= 1
    /\ lent[Len(lent)] = TRUE

\* C12: at most one Data is alive in any state.
C12_AtMostOneAlive ==
    Cardinality({d \in Resources : Alive(heap, d)}) <= 1

\* The second Data is alive in the borrower's hands, the first is destroyed.
C12_Witness ==
    /\ Len(heap) = 2
    /\ data_is_mine_now = 2
    /\ Alive(heap, 2)
    /\ ~Alive(heap, 1)

\* C13: the program terminates normally: every execution reaches the end
\* of main, no state is a crash, every state before the end of main has a
\* next step, and main ends after exactly two runs, the first lent
\* untouched and the second lent with claim.
C13_NoFailure == pc # "crashed" /\ (pc # "exited" => ENABLED Next)

C13_MainEnds ==
    (script = MainScript /\ pc = "exited")
        => /\ runs = 2
           /\ lent = <<FALSE, TRUE>>
           /\ ip = Len(script) + 1
           /\ Count(1, "final") = 1 /\ Count(2, "final") = 1

C13_TerminatesNormally ==
    /\ <>(pc = "exited")
    /\ []C13_NoFailure
    /\ []C13_MainEnds

\* main has returned after its two runs.
C13_Witness ==
    /\ script = MainScript
    /\ pc = "exited"
    /\ runs = 2

\* C14: every read of a payload goes through a non-null pointer to a live
\* Data: borrow() reads through m_data holding the Data this run has just
\* constructed, before any claim of it; consume() reads through its
\* parameter; every reported value is the stored payload and no read of a
\* Data comes after its destruction.
C14_ReadsAreValid ==
    /\ pc = "borrow_read" =>
          /\ m_data # NullPtr
          /\ m_data = Len(heap)
          /\ Alive(heap, m_data)
          /\ At("claim", m_data) = {}
          /\ log[Len(log)] = Event("create", m_data, Payload)
    /\ pc = "consume_read" =>
          /\ consume_data # NullPtr
          /\ Alive(heap, consume_data)
    /\ \A i \in 1..Len(log) :
          log[i].ev \in {"borrower", "consumer"} =>
              /\ log[i].id \in Resources
              /\ log[i].val = heap[log[i].id].datum
              /\ \A j \in At("destroy", log[i].id) \cup At("claim", log[i].id) :
                    (log[i].ev = "borrower" \/ log[j].ev = "destroy") => i < j

\* consume() has read in a second run; the borrower has read in both.
C14_Witness ==
    /\ pc = "consume_return"
    /\ runs >= 2
    /\ Cardinality({i \in 1..Len(log) : log[i].ev = "borrower"}) >= 2
    /\ Cardinality({i \in 1..Len(log) : log[i].ev = "consumer"}) >= 2

\* C15: every Data is destroyed before the produce() call that constructed
\* it returns: its destruction event belongs to the run of its creation,
\* is emitted by the end of consume() in an untouched run and by the end of
\* the claiming block in a claiming run, and no Data is alive when
\* produce() reaches its end, between runs, or when main returns; main's
\* return destroys nothing.
C15_DestroyedInRun ==
    /\ pc \in {"produce_final", "main", "exited"} =>
          \A d \in Resources : ~Alive(heap, d)
    /\ \A d \in Resources :
          \A j \in At("destroy", d) :
              /\ \A i \in At("create", d) : log[i].run = log[j].run
              /\ log[j - 1].ev =
                    IF lent[log[j].run] THEN "claim" ELSE "consumer"
              /\ log[j - 1].id = d

C15_ReturnDestroysNothing ==
    (pc = "main" /\ pc' = "exited") => (heap' = heap /\ log' = log)

C15_NoneOutlivesProduce ==
    []C15_DestroyedInRun /\ [][C15_ReturnDestroysNothing]_vars

\* main has returned; its two Data were destroyed in their own runs.
C15_Witness ==
    /\ script = MainScript
    /\ pc = "exited"
    /\ Len(heap) = 2
    /\ \A d \in Resources : ~Alive(heap, d)

\* C16: the branch produce() takes is a function of m_moocher at the call
\* of borrow(): consume is called iff it was false and the lost-it branch is
\* taken iff it was true; the events of a run are determined by that value
\* alone, so equal sequences of dispositions give equal sequences of events.
C16_Expected(r, claims) ==
    IF claims
    THEN << [ev |-> "create", run |-> r, id |-> r, val |-> Payload],
            [ev |-> "borrower", run |-> r, id |-> r, val |-> Payload],
            [ev |-> "claim", run |-> r, id |-> r, val |-> ""],
            [ev |-> "destroy", run |-> r, id |-> r, val |-> ""],
            [ev |-> "check", run |-> r, id |-> NullPtr, val |-> "false"],
            [ev |-> "lost", run |-> r, id |-> NullPtr, val |-> ""],
            [ev |-> "final", run |-> r, id |-> NullPtr, val |-> "true"] >>
    ELSE << [ev |-> "create", run |-> r, id |-> r, val |-> Payload],
            [ev |-> "borrower", run |-> r, id |-> r, val |-> Payload],
            [ev |-> "check", run |-> r, id |-> r, val |-> "true"],
            [ev |-> "consume", run |-> r, id |-> r, val |-> ""],
            [ev |-> "consumer", run |-> r, id |-> r, val |-> Payload],
            [ev |-> "destroy", run |-> r, id |-> r, val |-> ""],
            [ev |-> "final", run |-> r, id |-> NullPtr, val |-> "true"] >>

C16_BranchFollowsDisposition ==
    \A r \in 1..Len(lent) :
        LET e == EventsOf(r)
            x == C16_Expected(r, lent[r])
        IN /\ Len(e) <= Len(x)
           /\ \A i \in 1..Len(e) : e[i] = x[i]
           /\ (r < runs \/ pc \in {"main", "exited"}) => e = x
           /\ Count(r, "consume") = 1 => ~lent[r]
           /\ Count(r, "lost") = 1 => lent[r]
           /\ (Ended(r) /\ ~lent[r]) =>
                 (Count(r, "consume") = 1 /\ Count(r, "lost") = 0)
           /\ (Ended(r) /\ lent[r]) =>
                 (Count(r, "consume") = 0 /\ Count(r, "lost") = 1)

\* main has returned after two untouched runs and a claiming run.
C16_Witness ==
    /\ pc = "exited"
    /\ runs = 3
    /\ lent = <<FALSE, FALSE, TRUE>>

====
